---- MODULE Spec2Model ----
(***************************************************************************)
(* A model of notebook_code.py: the InputParameters dataclass with its     *)
(* chain of derived quantities, and the script that prints the quantities  *)
(* of one parameter set and sweeps flux, frame duration and pixel area.    *)
(*                                                                         *)
(* Numbers.  The program computes in binary64.  The model computes on a    *)
(* decimal fixed-point grid: the integer n stands for the number n/Scale.  *)
(* Every arithmetic operation rounds its exact result to the grid (nearest,*)
(* ties to even), as a floating-point operation rounds to its format.      *)
(* What the grid keeps of binary64 is what the properties below rest on:   *)
(* x*0 = 0 and 0/x = 0 exactly, exp(0) = 1 exactly, 1 - exp(-x) is 0 for   *)
(* x too small and 1 for x too large to register against 1, and results    *)
(* near 0 or 1 that are not exactly 0 or 1 go through the log2 formula.    *)
(* The fields are held in units of their values at line 116: flux in       *)
(* 1e8 cm^-2 s^-1, pixel_area in 1e-6 cm^2, frame_duration in 1e-7 s, so   *)
(* that every literal of the script is a grid number.                      *)
(***************************************************************************)
EXTENDS Integers, Sequences, FiniteSets, TLC

\* Grid resolution: the number x is held as the integer x * Scale.
Scale == 100

\* Working resolution inside Exp and Log2 (a power of two, finer than Scale).
Guard == 2^14

\* Fraction bits Log2 extracts.
LogBits == 2^12

One == Scale

Abs(a) == IF a < 0 THEN -a ELSE a

\* a / b for b > 0, rounded to the nearest integer, ties to even.
RoundDiv(a, b) ==
    LET q == a \div b
        r == a % b
    IN  IF 2 * r < b THEN q
        ELSE IF 2 * r > b THEN q + 1
        ELSE IF q % 2 = 0 THEN q ELSE q + 1

\* Python's a * b, a - b and -a on floats.
Mul(a, b) == RoundDiv(a * b, Scale)
Sub(a, b) == a - b
Neg(a) == -a

\* Python's a / b for b # 0.
Div(a, b) == IF b > 0 THEN RoundDiv(a * Scale, b) ELSE RoundDiv(-(a * Scale), -b)

\* The series 1 - x + x^2/2! - ... for 0 <= x <= Guard/2 at resolution Guard:
\* term is the k-th term's magnitude and sign its sign.
RECURSIVE ExpSeries(_, _, _, _)
ExpSeries(x, k, term, sign) ==
    IF term = 0 THEN 0
    ELSE sign * term + ExpSeries(x, k + 1, RoundDiv(term * x, (k + 1) * Guard), -sign)

\* exp(-x/Guard) * Guard for x >= 0: halve the argument down to the series'
\* range, square the result back up.
RECURSIVE ExpNegGuard(_)
ExpNegGuard(x) ==
    IF 2 * x <= Guard THEN ExpSeries(x, 0, Guard, 1)
    ELSE LET h == ExpNegGuard(x \div 2)
             sq == RoundDiv(h * h, Guard)
         IN  IF x % 2 = 0 THEN sq ELSE RoundDiv(sq * (Guard - 1), Guard)

\* np.exp(x): for x <= 0 the rounded exp(x); for x > 0 the reciprocal of
\* exp(-x), which stops at Guard (the largest number Exp returns) once exp(-x)
\* is below the working resolution.
Exp(x) ==
    LET e == ExpNegGuard(RoundDiv(Abs(x) * Guard, Scale))
    IN  IF x <= 0 THEN RoundDiv(e * Scale, Guard)
        ELSE IF e = 0 THEN Guard * Scale
        ELSE RoundDiv(Guard * Scale, e)

\* The fraction bits of log2(m/Guard) for Guard <= m < 2*Guard, as an integer
\* over LogBits: square, and take a bit whenever the square reaches 2.
RECURSIVE LogFraction(_, _)
LogFraction(m, weight) ==
    IF weight = 0 THEN 0
    ELSE LET sq == RoundDiv(m * m, Guard)
         IN  IF sq >= 2 * Guard
             THEN weight + LogFraction(sq \div 2, weight \div 2)
             ELSE LogFraction(sq, weight \div 2)

\* The exponent e with 2^e <= n/Scale < 2^(e+1), for n > 0, and the mantissa
\* n/2^e scaled into Scale .. 2*Scale-1 (at resolution den).
RECURSIVE LogNormalise(_, _, _)
LogNormalise(n, den, e) ==
    IF n >= 2 * den THEN LogNormalise(n, 2 * den, e + 1)
    ELSE IF n < den THEN LogNormalise(2 * n, den, e - 1)
    ELSE [e |-> e, m |-> RoundDiv(n * Guard, den)]

\* np.log2(x) for x > 0, rounded to the grid.
Log2Pos(x) ==
    LET n == LogNormalise(x, Scale, 0)
        f == LogFraction(n.m, LogBits \div 2)
    IN  RoundDiv((n.e * LogBits + f) * Scale, LogBits)

(***************************************************************************)
(* Floats a method returns.  k is "num", "nan" or "inf" (v is then the     *)
(* sign); np tells a numpy scalar from a Python float: dividing a Python   *)
(* float by zero raises ZeroDivisionError, dividing a numpy scalar does    *)
(* not.                                                                    *)
(***************************************************************************)
PyFloat(n) == [k |-> "num", v |-> n, np |-> FALSE]
NpFloat(n) == [k |-> "num", v |-> n, np |-> TRUE]
NpNaN == [k |-> "nan", v |-> 0, np |-> TRUE]
NpInf(sign) == [k |-> "inf", v |-> sign, np |-> TRUE]

Sign(n) == IF n > 0 THEN 1 ELSE IF n < 0 THEN -1 ELSE 0

\* What a call does: return a float, or raise.
Returned(x) == [exc |-> "None", val |-> x]
Raised(e) == [exc |-> e, val |-> PyFloat(0)]

\* -a
FNeg(a) == IF a.k = "num" THEN [a EXCEPT !.v = Neg(a.v)]
           ELSE IF a.k = "inf" THEN [a EXCEPT !.v = -a.v]
           ELSE a

\* a * b
FMul(a, b) ==
    IF a.k = "nan" \/ b.k = "nan" THEN NpNaN
    ELSE IF a.k = "inf" \/ b.k = "inf"
         THEN IF Sign(a.v) * Sign(b.v) = 0 THEN NpNaN ELSE NpInf(Sign(a.v) * Sign(b.v))
    ELSE [k |-> "num", v |-> Mul(a.v, b.v), np |-> a.np \/ b.np]

\* a - b
FSub(a, b) ==
    IF a.k = "nan" \/ b.k = "nan" THEN NpNaN
    ELSE IF a.k = "inf" /\ b.k = "inf" THEN IF a.v = b.v THEN NpNaN ELSE a
    ELSE IF a.k = "inf" THEN a
    ELSE IF b.k = "inf" THEN NpInf(-b.v)
    ELSE [k |-> "num", v |-> Sub(a.v, b.v), np |-> a.np \/ b.np]

\* a / b, b a field of the instance (a Python float, a number).
FDiv(a, b) ==
    IF b.v = 0
    THEN IF ~a.np THEN Raised("ZeroDivisionError")
         ELSE IF a.k = "nan" \/ a.v = 0 THEN Returned(NpNaN)
         ELSE Returned(NpInf(Sign(a.v)))
    ELSE IF a.k = "nan" THEN Returned(NpNaN)
    ELSE IF a.k = "inf" THEN Returned(NpInf(a.v * Sign(b.v)))
    ELSE Returned([k |-> "num", v |-> Div(a.v, b.v), np |-> a.np \/ b.np])

\* np.log2(x) of a number: nan below 0, -inf at 0.
NpLog2(x) ==
    IF x.v < 0 THEN NpNaN
    ELSE IF x.v = 0 THEN NpInf(-1)
    ELSE NpFloat(Log2Pos(x.v))

(***************************************************************************)
(* class InputParameters                                                   *)
(***************************************************************************)
\* The dataclass's generated __init__: the three fields, as given.
InputParameters(flux, pixel_area, frame_duration) ==
    [flux |-> flux, pixel_area |-> pixel_area, frame_duration |-> frame_duration]

get_summary(self) ==
    << "Flux [cm^{-2}.s^{-1}]: ", self.flux, ", Pixel Area: ", self.pixel_area,
       ", Frame Duration [s]: ", self.frame_duration >>

calculate_flux_area_product(self) ==
    PyFloat(Mul(self.flux, self.pixel_area))

calculate_flux_area_frame_duration_product(self) ==
    PyFloat(Mul(Mul(self.flux, self.pixel_area), self.frame_duration))

\* calculate_pixel_occupancy with the exponent's sign lost: 1 - np.exp(lambda_pixel).
calculate_pixel_occupancy_sign(self) ==
    LET lambda_pixel == calculate_flux_area_frame_duration_product(self)
    IN  NpFloat(Sub(One, Exp(lambda_pixel.v)))

calculate_pixel_occupancy(self) ==
    LET lambda_pixel == calculate_flux_area_frame_duration_product(self)
    IN  NpFloat(Sub(One, Exp(Neg(lambda_pixel.v))))

\* The formula of line 33.
EntropyFormula(occupancy) ==
    FSub(FMul(FNeg(occupancy), NpLog2(occupancy)),
         FMul(FSub(PyFloat(One), occupancy), NpLog2(FSub(PyFloat(One), occupancy))))

\* calculate_pixel_entropy without line 31's test.
calculate_pixel_entropy_unguarded(self) ==
    EntropyFormula(calculate_pixel_occupancy(self))

\* calculate_pixel_entropy with line 31 testing occupancy == 0 alone.
calculate_pixel_entropy_guard0(self) ==
    LET occupancy == calculate_pixel_occupancy(self)
    IN  IF occupancy.v = 0 THEN PyFloat(0) ELSE EntropyFormula(occupancy)

calculate_pixel_entropy(self) ==
    LET occupancy == calculate_pixel_occupancy(self)
    IN  IF occupancy.v = 0 \/ occupancy.v = One THEN PyFloat(0)
        ELSE EntropyFormula(occupancy)

\* The arguments np.log2 is applied to in calculate_pixel_entropy.
Log2Arguments(self) ==
    LET occupancy == calculate_pixel_occupancy(self)
    IN  IF occupancy.v = 0 \/ occupancy.v = One THEN {}
        ELSE {occupancy.v, Sub(One, occupancy.v)}

calculate_entropy_per_cm2(self) ==
    FDiv(calculate_pixel_entropy(self), PyFloat(self.pixel_area))

calculate_entropy_per_cm2_per_s(self) ==
    LET per_cm2 == calculate_entropy_per_cm2(self)
    IN  IF per_cm2.exc # "None" THEN per_cm2
        ELSE FDiv(per_cm2.val, PyFloat(self.frame_duration))

(***************************************************************************)
(* State.  inputParameters is the global the script binds its instance to; *)
(* ret is what the last operation on it did; writes counts the field       *)
(* assignments since it was constructed (up to MaxWrites).  The other      *)
(* variables are the script's globals, its position and its output.        *)
(***************************************************************************)
VARIABLES inputParameters, ret, writes,
          pc, it,
          flux_values, frame_duration_values, pixel_area_values,
          entropy_results, entropy_vs_duration_results, entropy_vs_pixel_area_results,
          flux, frame_duration, pixel_area,
          pixel_occupancy, pixel_entropy, entropy_per_cm2, entropy_per_cm2_per_s,
          stdout, figures

object == << inputParameters, ret, writes >>
lists == << flux_values, frame_duration_values, pixel_area_values >>
results == << entropy_results, entropy_vs_duration_results, entropy_vs_pixel_area_results >>
loopvars == << flux, frame_duration, pixel_area >>
scalars == << pixel_occupancy, pixel_entropy, entropy_per_cm2, entropy_per_cm2_per_s >>
script == << pc, it, lists, results, loopvars, scalars, stdout, figures >>
vars == << object, script >>

\* A name not bound yet.
None == [none |-> TRUE]
NoValue == [k |-> "none", v |-> 0, np |-> FALSE]

Methods == { "get_summary", "calculate_flux_area_product",
             "calculate_flux_area_frame_duration_product",
             "calculate_pixel_occupancy", "calculate_pixel_entropy",
             "calculate_entropy_per_cm2", "calculate_entropy_per_cm2_per_s" }

\* Values a client assigns to the fields: below, at the edge of and inside the
\* ranges the fields are meant to have.  With them the mean number of hits per
\* frame runs from 0 in steps of 0.01 up to 9, and the occupancy takes every
\* value of the grid from 0 to 1.
FluxStep == 1
MaxFluxSteps == 100
AreaStep == 50
MaxAreaSteps == 3
DurationStep == 100
MaxDurationSteps == 6
MaxWrites == 2

FluxInputs == {-FluxStep} \cup {FluxStep * n : n \in 0..MaxFluxSteps}
AreaInputs == {-1, 0} \cup {AreaStep * n : n \in 1..MaxAreaSteps}
DurationInputs == {-1, 0} \cup {DurationStep * n : n \in 1..MaxDurationSteps}

\* Values a client constructs with: the least, 0 and the greatest of the
\* above (every other combination is reached by assignments).
Extremes(S) ==
    {0} \cup {x \in S : (\A y \in S : x <= y) \/ (\A y \in S : y <= x)}

\* What calling method m on self does.
Invoke(m, self) ==
    CASE m = "get_summary" ->
           [op |-> m, exc |-> "None", val |-> NoValue, text |-> get_summary(self), log2 |-> {}]
      [] m = "calculate_flux_area_product" ->
           [op |-> m, exc |-> "None", val |-> calculate_flux_area_product(self),
            text |-> << >>, log2 |-> {}]
      [] m = "calculate_flux_area_frame_duration_product" ->
           [op |-> m, exc |-> "None", val |-> calculate_flux_area_frame_duration_product(self),
            text |-> << >>, log2 |-> {}]
      [] m = "calculate_pixel_occupancy" ->
           [op |-> m, exc |-> "None", val |-> calculate_pixel_occupancy(self),
            text |-> << >>, log2 |-> {}]
      [] m = "calculate_pixel_entropy" ->
           [op |-> m, exc |-> "None", val |-> calculate_pixel_entropy(self),
            text |-> << >>, log2 |-> Log2Arguments(self)]
      [] m = "calculate_entropy_per_cm2" ->
           LET r == calculate_entropy_per_cm2(self)
           IN  [op |-> m, exc |-> r.exc, val |-> r.val, text |-> << >>,
                log2 |-> Log2Arguments(self)]
      [] m = "calculate_entropy_per_cm2_per_s" ->
           LET r == calculate_entropy_per_cm2_per_s(self)
           IN  [op |-> m, exc |-> r.exc, val |-> r.val, text |-> << >>,
                log2 |-> Log2Arguments(self)]

Done(op) == [op |-> op, exc |-> "None", val |-> NoValue, text |-> << >>, log2 |-> {}]

InitScriptVars ==
    /\ pc = 116 /\ it = 0
    /\ flux_values = << >> /\ frame_duration_values = << >> /\ pixel_area_values = << >>
    /\ entropy_results = << >> /\ entropy_vs_duration_results = << >>
    /\ entropy_vs_pixel_area_results = << >>
    /\ flux = None /\ frame_duration = None /\ pixel_area = None
    /\ pixel_occupancy = None /\ pixel_entropy = None
    /\ entropy_per_cm2 = None /\ entropy_per_cm2_per_s = None
    /\ stdout = << >> /\ figures = << >>

(***************************************************************************)
(* A client of the class: it constructs instances, assigns fields and      *)
(* calls methods, in any order and with any of the input values.           *)
(***************************************************************************)
Init ==
    /\ inputParameters = None /\ ret = Done("import") /\ writes = 0
    /\ InitScriptVars

\* inputParameters = InputParameters(flux=f, pixel_area=a, frame_duration=d)
Construct(f, a, d) ==
    /\ inputParameters' = InputParameters(f, a, d)
    /\ ret' = Done("__init__")
    /\ writes' = 0
    /\ UNCHANGED script

Count(n) == IF n < MaxWrites THEN n + 1 ELSE n

\* inputParameters.flux = v
SetFlux(v) ==
    /\ inputParameters # None
    /\ inputParameters' = [inputParameters EXCEPT !.flux = v]
    /\ ret' = Done("__setattr__")
    /\ writes' = Count(writes)
    /\ UNCHANGED script

\* inputParameters.pixel_area = v
SetPixelArea(v) ==
    /\ inputParameters # None
    /\ inputParameters' = [inputParameters EXCEPT !.pixel_area = v]
    /\ ret' = Done("__setattr__")
    /\ writes' = Count(writes)
    /\ UNCHANGED script

\* inputParameters.frame_duration = v
SetFrameDuration(v) ==
    /\ inputParameters # None
    /\ inputParameters' = [inputParameters EXCEPT !.frame_duration = v]
    /\ ret' = Done("__setattr__")
    /\ writes' = Count(writes)
    /\ UNCHANGED script

\* Call with a method that updates a field in place (self.flux *= self.pixel_area).
CallDrifting(m) ==
    /\ inputParameters # None
    /\ ret' = Invoke(m, inputParameters)
    /\ inputParameters' =
           [inputParameters EXCEPT !.flux = Mul(inputParameters.flux, inputParameters.pixel_area)]
    /\ UNCHANGED << writes, script >>

\* Call with a method that stores its intermediate lambda in a field.
CallClobbering(m) ==
    /\ inputParameters # None
    /\ ret' = Invoke(m, inputParameters)
    /\ inputParameters' =
           [inputParameters EXCEPT
              !.frame_duration = calculate_flux_area_frame_duration_product(inputParameters).v]
    /\ UNCHANGED << writes, script >>

\* inputParameters.m()
Call(m) ==
    /\ inputParameters # None
    /\ ret' = Invoke(m, inputParameters)
    /\ UNCHANGED << inputParameters, writes, script >>

Next ==
    \/ \E f \in Extremes(FluxInputs), a \in Extremes(AreaInputs),
          d \in Extremes(DurationInputs) : Construct(f, a, d)
    \/ \E v \in FluxInputs : SetFlux(v)
    \/ \E v \in AreaInputs : SetPixelArea(v)
    \/ \E v \in DurationInputs : SetFrameDuration(v)
    \/ \E m \in Methods : Call(m)

Spec == Init /\ [][Next]_vars

(***************************************************************************)
(* The script, lines 116-211, one action per statement; pc is the line of  *)
(* the statement to run next and it the position of the running for loop   *)
(* in its list.  The literals are written in the fields' units.            *)
(***************************************************************************)
\* flux=1e8, pixel_area=1e-6, frame_duration=1e-7 (lines 116, 140, 166, 192).
BaseFlux == Scale
BasePixelArea == Scale
BaseFrameDuration == Scale

\* [1e6, 2e6, 5e6, 1e7, 2e7, 5e7, 1e8]
FluxValuesLiteral == << 1, 2, 5, 10, 20, 50, 100 >>
\* [1e-7, 2e-7, 5e-7, 1e-6, 2e-6]
FrameDurationValuesLiteral == << 100, 200, 500, 1000, 2000 >>
\* [1e-6, 1.5e-6, 2e-6, 2.5e-6, 3e-6, 3.5e-6, 4e-6]
PixelAreaValuesLiteral == << 100, 150, 200, 250, 300, 350, 400 >>

\* The dataclass's generated __repr__.
Repr(self) ==
    << "InputParameters(flux=", self.flux, ", pixel_area=", self.pixel_area,
       ", frame_duration=", self.frame_duration, ")" >>

\* zip(*pairs): the first and the second components.
Unzip(pairs) ==
    << [n \in 1..Len(pairs) |-> pairs[n][1]], [n \in 1..Len(pairs) |-> pairs[n][2]] >>

\* plt.figure ... plt.show() of the three plot functions.
Figure(pairs, xlabel, title, yaxis) ==
    [x |-> Unzip(pairs)[1], y |-> Unzip(pairs)[2], xlabel |-> xlabel,
     title |-> title, xscale |-> "log", yaxis |-> yaxis]

\* The script stops with a traceback.
Traceback == 0
\* The script has run to its end.
End == 212

\* x = inputParameters.calculate_entropy_per_cm2_per_s(): the next line, or
\* the traceback if the call raises.
EvaluateTo(next) ==
    LET r == calculate_entropy_per_cm2_per_s(inputParameters)
    IN  /\ entropy_per_cm2_per_s' = (IF r.exc = "None" THEN r.val ELSE entropy_per_cm2_per_s)
        /\ pc' = (IF r.exc = "None" THEN next ELSE Traceback)

\* PlotEntropyUtilities
plot_entropy_vs_flux(entropy_results_arg) ==
    Figure(entropy_results_arg, "Flux [cm-2.s-1]", "Entropy as a Function of Flux", "log")

plot_entropy_vs_frame_duration(entropy_vs_duration_results_arg) ==
    Figure(entropy_vs_duration_results_arg, "Frame Duration [s]",
           "Entropy as a Function of Frame Duration", "ylim(0, 2e9)")

plot_entropy_vs_pixel_area(entropy_vs_pixel_area_results_arg) ==
    Figure(entropy_vs_pixel_area_results_arg, "Pixel Area [cm2]",
           "Entropy as a Function of Pixel Area", "ylim(0, 2e9)")

\* 116: inputParameters = InputParameters(flux=1e8, pixel_area=1e-6, frame_duration=1e-7)
Stmt116 ==
    /\ pc = 116
    /\ inputParameters' = InputParameters(BaseFlux, BasePixelArea, BaseFrameDuration)
    /\ pc' = 119
    /\ UNCHANGED << ret, writes, it, flux_values, frame_duration_values,
                   pixel_area_values, entropy_results, entropy_vs_duration_results,
                   entropy_vs_pixel_area_results, flux, frame_duration, pixel_area,
                   pixel_occupancy, pixel_entropy, entropy_per_cm2,
                   entropy_per_cm2_per_s, stdout, figures >>

\* 119: print(inputParameters.get_summary())
Stmt119 ==
    /\ pc = 119
    /\ stdout' = Append(stdout, get_summary(inputParameters))
    /\ pc' = 122
    /\ UNCHANGED << ret, writes, it, flux_values, frame_duration_values,
                   pixel_area_values, entropy_results, entropy_vs_duration_results,
                   entropy_vs_pixel_area_results, flux, frame_duration, pixel_area,
                   pixel_occupancy, pixel_entropy, entropy_per_cm2,
                   entropy_per_cm2_per_s, figures, inputParameters >>

\* 122: print(inputParameters)
Stmt122 ==
    /\ pc = 122
    /\ stdout' = Append(stdout, Repr(inputParameters))
    /\ pc' = 125
    /\ UNCHANGED << ret, writes, it, flux_values, frame_duration_values,
                   pixel_area_values, entropy_results, entropy_vs_duration_results,
                   entropy_vs_pixel_area_results, flux, frame_duration, pixel_area,
                   pixel_occupancy, pixel_entropy, entropy_per_cm2,
                   entropy_per_cm2_per_s, figures, inputParameters >>

\* 125: pixel_occupancy = inputParameters.calculate_pixel_occupancy()
Stmt125 ==
    /\ pc = 125
    /\ pixel_occupancy' = calculate_pixel_occupancy(inputParameters)
    /\ pc' = 126
    /\ UNCHANGED << ret, writes, it, flux_values, frame_duration_values,
                   pixel_area_values, entropy_results, entropy_vs_duration_results,
                   entropy_vs_pixel_area_results, flux, frame_duration, pixel_area,
                   pixel_entropy, entropy_per_cm2, entropy_per_cm2_per_s, stdout,
                   figures, inputParameters >>

\* 126: print(f"Pixel Occupancy: {pixel_occupancy}")
Stmt126 ==
    /\ pc = 126
    /\ stdout' = Append(stdout, << "Pixel Occupancy: ", pixel_occupancy >>)
    /\ pc' = 127
    /\ UNCHANGED << ret, writes, it, flux_values, frame_duration_values,
                   pixel_area_values, entropy_results, entropy_vs_duration_results,
                   entropy_vs_pixel_area_results, flux, frame_duration, pixel_area,
                   pixel_occupancy, pixel_entropy, entropy_per_cm2,
                   entropy_per_cm2_per_s, figures, inputParameters >>

\* 127: pixel_entropy = inputParameters.calculate_pixel_entropy()
Stmt127 ==
    /\ pc = 127
    /\ pixel_entropy' = calculate_pixel_entropy(inputParameters)
    /\ pc' = 128
    /\ UNCHANGED << ret, writes, it, flux_values, frame_duration_values,
                   pixel_area_values, entropy_results, entropy_vs_duration_results,
                   entropy_vs_pixel_area_results, flux, frame_duration, pixel_area,
                   pixel_occupancy, entropy_per_cm2, entropy_per_cm2_per_s, stdout,
                   figures, inputParameters >>

\* 128: print(f"Pixel Entropy: {pixel_entropy}")
Stmt128 ==
    /\ pc = 128
    /\ stdout' = Append(stdout, << "Pixel Entropy: ", pixel_entropy >>)
    /\ pc' = 129
    /\ UNCHANGED << ret, writes, it, flux_values, frame_duration_values,
                   pixel_area_values, entropy_results, entropy_vs_duration_results,
                   entropy_vs_pixel_area_results, flux, frame_duration, pixel_area,
                   pixel_occupancy, pixel_entropy, entropy_per_cm2,
                   entropy_per_cm2_per_s, figures, inputParameters >>

\* 129: entropy_per_cm2 = inputParameters.calculate_entropy_per_cm2()
Stmt129 ==
    /\ pc = 129
    /\ LET r == calculate_entropy_per_cm2(inputParameters)
       IN  /\ entropy_per_cm2' = (IF r.exc = "None" THEN r.val ELSE entropy_per_cm2)
           /\ pc' = (IF r.exc = "None" THEN 130 ELSE Traceback)
    /\ UNCHANGED << ret, writes, it, flux_values, frame_duration_values,
                   pixel_area_values, entropy_results, entropy_vs_duration_results,
                   entropy_vs_pixel_area_results, flux, frame_duration, pixel_area,
                   pixel_occupancy, pixel_entropy, entropy_per_cm2_per_s, stdout,
                   figures, inputParameters >>

\* 130: print(f"Entropy per cm^2: {entropy_per_cm2}")
Stmt130 ==
    /\ pc = 130
    /\ stdout' = Append(stdout, << "Entropy per cm^2: ", entropy_per_cm2 >>)
    /\ pc' = 131
    /\ UNCHANGED << ret, writes, it, flux_values, frame_duration_values,
                   pixel_area_values, entropy_results, entropy_vs_duration_results,
                   entropy_vs_pixel_area_results, flux, frame_duration, pixel_area,
                   pixel_occupancy, pixel_entropy, entropy_per_cm2,
                   entropy_per_cm2_per_s, figures, inputParameters >>

\* 131: entropy_per_cm2_per_s = inputParameters.calculate_entropy_per_cm2_per_s()
Stmt131 ==
    /\ pc = 131
    /\ EvaluateTo(132)
    /\ UNCHANGED << ret, writes, it, flux_values, frame_duration_values,
                   pixel_area_values, entropy_results, entropy_vs_duration_results,
                   entropy_vs_pixel_area_results, flux, frame_duration, pixel_area,
                   pixel_occupancy, pixel_entropy, entropy_per_cm2, stdout, figures,
                   inputParameters >>

\* 132: print(f"Entropy per cm^2 per second: {entropy_per_cm2_per_s}")
Stmt132 ==
    /\ pc = 132
    /\ stdout' = Append(stdout, << "Entropy per cm^2 per second: ", entropy_per_cm2_per_s >>)
    /\ pc' = 140
    /\ UNCHANGED << ret, writes, it, flux_values, frame_duration_values,
                   pixel_area_values, entropy_results, entropy_vs_duration_results,
                   entropy_vs_pixel_area_results, flux, frame_duration, pixel_area,
                   pixel_occupancy, pixel_entropy, entropy_per_cm2,
                   entropy_per_cm2_per_s, figures, inputParameters >>

\* 140: inputParameters = InputParameters(flux=1e8, pixel_area=1e-6, frame_duration=1e-7)
Stmt140 ==
    /\ pc = 140
    /\ inputParameters' = InputParameters(BaseFlux, BasePixelArea, BaseFrameDuration)
    /\ pc' = 143
    /\ UNCHANGED << ret, writes, it, flux_values, frame_duration_values,
                   pixel_area_values, entropy_results, entropy_vs_duration_results,
                   entropy_vs_pixel_area_results, flux, frame_duration, pixel_area,
                   pixel_occupancy, pixel_entropy, entropy_per_cm2,
                   entropy_per_cm2_per_s, stdout, figures >>

\* 143: flux_values = [...]
Stmt143 ==
    /\ pc = 143
    /\ flux_values' = FluxValuesLiteral
    /\ pc' = 146
    /\ UNCHANGED << ret, writes, it, frame_duration_values, pixel_area_values,
                   entropy_results, entropy_vs_duration_results,
                   entropy_vs_pixel_area_results, flux, frame_duration, pixel_area,
                   pixel_occupancy, pixel_entropy, entropy_per_cm2,
                   entropy_per_cm2_per_s, stdout, figures, inputParameters >>

\* 146: entropy_results = []
Stmt146 ==
    /\ pc = 146
    /\ entropy_results' = << >>
    /\ pc' = 149
    /\ UNCHANGED << ret, writes, it, flux_values, frame_duration_values, pixel_area_values,
                   entropy_vs_duration_results, entropy_vs_pixel_area_results, flux,
                   frame_duration, pixel_area, pixel_occupancy, pixel_entropy,
                   entropy_per_cm2, entropy_per_cm2_per_s, stdout, figures,
                   inputParameters >>

\* 149: for flux in flux_values: bind the next value, or leave the loop.
Stmt149 ==
    /\ pc = 149
    /\ IF it < Len(flux_values)
       THEN /\ flux' = flux_values[it + 1]
            /\ it' = it + 1
            /\ pc' = 151
       ELSE /\ pc' = 159
            /\ it' = 0
            /\ UNCHANGED flux
    /\ UNCHANGED << ret, writes, flux_values, frame_duration_values, pixel_area_values,
                   entropy_results, entropy_vs_duration_results,
                   entropy_vs_pixel_area_results, frame_duration, pixel_area,
                   pixel_occupancy, pixel_entropy, entropy_per_cm2,
                   entropy_per_cm2_per_s, stdout, figures, inputParameters >>

\* 151: inputParameters.flux = flux
Stmt151 ==
    /\ pc = 151
    /\ inputParameters' = [inputParameters EXCEPT !.flux = flux]
    /\ pc' = 154
    /\ UNCHANGED << ret, writes, it, flux_values, frame_duration_values,
                   pixel_area_values, entropy_results, entropy_vs_duration_results,
                   entropy_vs_pixel_area_results, flux, frame_duration, pixel_area,
                   pixel_occupancy, pixel_entropy, entropy_per_cm2,
                   entropy_per_cm2_per_s, stdout, figures >>

\* 154: entropy_per_cm2_per_s = inputParameters.calculate_entropy_per_cm2_per_s()
Stmt154 ==
    /\ pc = 154
    /\ EvaluateTo(156)
    /\ UNCHANGED << ret, writes, it, flux_values, frame_duration_values,
                   pixel_area_values, entropy_results, entropy_vs_duration_results,
                   entropy_vs_pixel_area_results, flux, frame_duration, pixel_area,
                   pixel_occupancy, pixel_entropy, entropy_per_cm2, stdout, figures,
                   inputParameters >>

\* Line 156 inserting at the front: entropy_results.insert(0, ...).
Stmt156Prepend ==
    /\ pc = 156
    /\ entropy_results' = << << flux, entropy_per_cm2_per_s >> >> \o entropy_results
    /\ pc' = 149
    /\ UNCHANGED << ret, writes, it, flux_values, frame_duration_values,
                   pixel_area_values, entropy_vs_duration_results,
                   entropy_vs_pixel_area_results, flux, frame_duration, pixel_area,
                   pixel_occupancy, pixel_entropy, entropy_per_cm2,
                   entropy_per_cm2_per_s, stdout, figures, inputParameters >>

\* 156: entropy_results.append((flux, entropy_per_cm2_per_s))
Stmt156 ==
    /\ pc = 156
    /\ entropy_results' = Append(entropy_results, << flux, entropy_per_cm2_per_s >>)
    /\ pc' = 149
    /\ UNCHANGED << ret, writes, it, flux_values, frame_duration_values,
                   pixel_area_values, entropy_vs_duration_results,
                   entropy_vs_pixel_area_results, flux, frame_duration, pixel_area,
                   pixel_occupancy, pixel_entropy, entropy_per_cm2,
                   entropy_per_cm2_per_s, stdout, figures, inputParameters >>

\* 159: PlotEntropyUtilities.plot_entropy_vs_flux(entropy_results)
Stmt159 ==
    /\ pc = 159
    /\ figures' = Append(figures, plot_entropy_vs_flux(entropy_results))
    /\ pc' = 166
    /\ UNCHANGED << ret, writes, it, flux_values, frame_duration_values,
                   pixel_area_values, entropy_results, entropy_vs_duration_results,
                   entropy_vs_pixel_area_results, flux, frame_duration, pixel_area,
                   pixel_occupancy, pixel_entropy, entropy_per_cm2,
                   entropy_per_cm2_per_s, stdout, inputParameters >>

\* 166: inputParameters = InputParameters(flux=1e8, pixel_area=1e-6, frame_duration=1e-7)
Stmt166 ==
    /\ pc = 166
    /\ inputParameters' = InputParameters(BaseFlux, BasePixelArea, BaseFrameDuration)
    /\ pc' = 169
    /\ UNCHANGED << ret, writes, it, flux_values, frame_duration_values,
                   pixel_area_values, entropy_results, entropy_vs_duration_results,
                   entropy_vs_pixel_area_results, flux, frame_duration, pixel_area,
                   pixel_occupancy, pixel_entropy, entropy_per_cm2,
                   entropy_per_cm2_per_s, stdout, figures >>

\* 169: frame_duration_values = [...]
Stmt169 ==
    /\ pc = 169
    /\ frame_duration_values' = FrameDurationValuesLiteral
    /\ pc' = 172
    /\ UNCHANGED << ret, writes, it, flux_values, pixel_area_values, entropy_results,
                   entropy_vs_duration_results, entropy_vs_pixel_area_results, flux,
                   frame_duration, pixel_area, pixel_occupancy, pixel_entropy,
                   entropy_per_cm2, entropy_per_cm2_per_s, stdout, figures,
                   inputParameters >>

\* 172: entropy_vs_duration_results = []
Stmt172 ==
    /\ pc = 172
    /\ entropy_vs_duration_results' = << >>
    /\ pc' = 175
    /\ UNCHANGED << ret, writes, it, flux_values, frame_duration_values, pixel_area_values,
                   entropy_results, entropy_vs_pixel_area_results, flux, frame_duration,
                   pixel_area, pixel_occupancy, pixel_entropy, entropy_per_cm2,
                   entropy_per_cm2_per_s, stdout, figures, inputParameters >>

\* 175: for frame_duration in frame_duration_values: bind the next value, or leave the loop.
Stmt175 ==
    /\ pc = 175
    /\ IF it < Len(frame_duration_values)
       THEN /\ frame_duration' = frame_duration_values[it + 1]
            /\ it' = it + 1
            /\ pc' = 177
       ELSE /\ pc' = 185
            /\ it' = 0
            /\ UNCHANGED frame_duration
    /\ UNCHANGED << ret, writes, flux_values, frame_duration_values, pixel_area_values,
                   entropy_results, entropy_vs_duration_results,
                   entropy_vs_pixel_area_results, flux, pixel_area, pixel_occupancy,
                   pixel_entropy, entropy_per_cm2, entropy_per_cm2_per_s, stdout,
                   figures, inputParameters >>

\* Line 177 assigning the wrong field: inputParameters.flux = frame_duration.
Stmt177WrongField ==
    /\ pc = 177
    /\ inputParameters' = [inputParameters EXCEPT !.flux = frame_duration]
    /\ pc' = 180
    /\ UNCHANGED << ret, writes, it, flux_values, frame_duration_values,
                   pixel_area_values, entropy_results, entropy_vs_duration_results,
                   entropy_vs_pixel_area_results, flux, frame_duration, pixel_area,
                   pixel_occupancy, pixel_entropy, entropy_per_cm2,
                   entropy_per_cm2_per_s, stdout, figures >>

\* 177: inputParameters.frame_duration = frame_duration
Stmt177 ==
    /\ pc = 177
    /\ inputParameters' = [inputParameters EXCEPT !.frame_duration = frame_duration]
    /\ pc' = 180
    /\ UNCHANGED << ret, writes, it, flux_values, frame_duration_values,
                   pixel_area_values, entropy_results, entropy_vs_duration_results,
                   entropy_vs_pixel_area_results, flux, frame_duration, pixel_area,
                   pixel_occupancy, pixel_entropy, entropy_per_cm2,
                   entropy_per_cm2_per_s, stdout, figures >>

\* 180: entropy_per_cm2_per_s = inputParameters.calculate_entropy_per_cm2_per_s()
Stmt180 ==
    /\ pc = 180
    /\ EvaluateTo(182)
    /\ UNCHANGED << ret, writes, it, flux_values, frame_duration_values,
                   pixel_area_values, entropy_results, entropy_vs_duration_results,
                   entropy_vs_pixel_area_results, flux, frame_duration, pixel_area,
                   pixel_occupancy, pixel_entropy, entropy_per_cm2, stdout, figures,
                   inputParameters >>

\* 182: entropy_vs_duration_results.append((frame_duration, entropy_per_cm2_per_s))
Stmt182 ==
    /\ pc = 182
    /\ entropy_vs_duration_results' = Append(entropy_vs_duration_results, << frame_duration, entropy_per_cm2_per_s >>)
    /\ pc' = 175
    /\ UNCHANGED << ret, writes, it, flux_values, frame_duration_values,
                   pixel_area_values, entropy_results, entropy_vs_pixel_area_results,
                   flux, frame_duration, pixel_area, pixel_occupancy, pixel_entropy,
                   entropy_per_cm2, entropy_per_cm2_per_s, stdout, figures,
                   inputParameters >>

\* 185: PlotEntropyUtilities.plot_entropy_vs_frame_duration(entropy_vs_duration_results)
Stmt185 ==
    /\ pc = 185
    /\ figures' = Append(figures, plot_entropy_vs_frame_duration(entropy_vs_duration_results))
    /\ pc' = 192
    /\ UNCHANGED << ret, writes, it, flux_values, frame_duration_values,
                   pixel_area_values, entropy_results, entropy_vs_duration_results,
                   entropy_vs_pixel_area_results, flux, frame_duration, pixel_area,
                   pixel_occupancy, pixel_entropy, entropy_per_cm2,
                   entropy_per_cm2_per_s, stdout, inputParameters >>

\* Line 192 left out: the sweep goes on with the instance of the sweep before.
Stmt192NoReset ==
    /\ pc = 192
    /\ pc' = 195
    /\ UNCHANGED << ret, writes, it, flux_values, frame_duration_values,
                   pixel_area_values, entropy_results, entropy_vs_duration_results,
                   entropy_vs_pixel_area_results, flux, frame_duration, pixel_area,
                   pixel_occupancy, pixel_entropy, entropy_per_cm2,
                   entropy_per_cm2_per_s, stdout, figures, inputParameters >>

\* 192: inputParameters = InputParameters(flux=1e8, pixel_area=1e-6, frame_duration=1e-7)
Stmt192 ==
    /\ pc = 192
    /\ inputParameters' = InputParameters(BaseFlux, BasePixelArea, BaseFrameDuration)
    /\ pc' = 195
    /\ UNCHANGED << ret, writes, it, flux_values, frame_duration_values,
                   pixel_area_values, entropy_results, entropy_vs_duration_results,
                   entropy_vs_pixel_area_results, flux, frame_duration, pixel_area,
                   pixel_occupancy, pixel_entropy, entropy_per_cm2,
                   entropy_per_cm2_per_s, stdout, figures >>

\* 195: pixel_area_values = [...]
Stmt195 ==
    /\ pc = 195
    /\ pixel_area_values' = PixelAreaValuesLiteral
    /\ pc' = 198
    /\ UNCHANGED << ret, writes, it, flux_values, frame_duration_values, entropy_results,
                   entropy_vs_duration_results, entropy_vs_pixel_area_results, flux,
                   frame_duration, pixel_area, pixel_occupancy, pixel_entropy,
                   entropy_per_cm2, entropy_per_cm2_per_s, stdout, figures,
                   inputParameters >>

\* 198: entropy_vs_pixel_area_results = []
Stmt198 ==
    /\ pc = 198
    /\ entropy_vs_pixel_area_results' = << >>
    /\ pc' = 201
    /\ UNCHANGED << ret, writes, it, flux_values, frame_duration_values, pixel_area_values,
                   entropy_results, entropy_vs_duration_results, flux, frame_duration,
                   pixel_area, pixel_occupancy, pixel_entropy, entropy_per_cm2,
                   entropy_per_cm2_per_s, stdout, figures, inputParameters >>

\* 201: for pixel_area in pixel_area_values: bind the next value, or leave the loop.
Stmt201 ==
    /\ pc = 201
    /\ IF it < Len(pixel_area_values)
       THEN /\ pixel_area' = pixel_area_values[it + 1]
            /\ it' = it + 1
            /\ pc' = 203
       ELSE /\ pc' = 211
            /\ it' = 0
            /\ UNCHANGED pixel_area
    /\ UNCHANGED << ret, writes, flux_values, frame_duration_values, pixel_area_values,
                   entropy_results, entropy_vs_duration_results,
                   entropy_vs_pixel_area_results, flux, frame_duration, pixel_occupancy,
                   pixel_entropy, entropy_per_cm2, entropy_per_cm2_per_s, stdout,
                   figures, inputParameters >>

\* 203: inputParameters.pixel_area = pixel_area
Stmt203 ==
    /\ pc = 203
    /\ inputParameters' = [inputParameters EXCEPT !.pixel_area = pixel_area]
    /\ pc' = 206
    /\ UNCHANGED << ret, writes, it, flux_values, frame_duration_values,
                   pixel_area_values, entropy_results, entropy_vs_duration_results,
                   entropy_vs_pixel_area_results, flux, frame_duration, pixel_area,
                   pixel_occupancy, pixel_entropy, entropy_per_cm2,
                   entropy_per_cm2_per_s, stdout, figures >>

\* 206: entropy_per_cm2_per_s = inputParameters.calculate_entropy_per_cm2_per_s()
Stmt206 ==
    /\ pc = 206
    /\ EvaluateTo(208)
    /\ UNCHANGED << ret, writes, it, flux_values, frame_duration_values,
                   pixel_area_values, entropy_results, entropy_vs_duration_results,
                   entropy_vs_pixel_area_results, flux, frame_duration, pixel_area,
                   pixel_occupancy, pixel_entropy, entropy_per_cm2, stdout, figures,
                   inputParameters >>

\* 208: entropy_vs_pixel_area_results.append((pixel_area, entropy_per_cm2_per_s))
Stmt208 ==
    /\ pc = 208
    /\ entropy_vs_pixel_area_results' = Append(entropy_vs_pixel_area_results, << pixel_area, entropy_per_cm2_per_s >>)
    /\ pc' = 201
    /\ UNCHANGED << ret, writes, it, flux_values, frame_duration_values,
                   pixel_area_values, entropy_results, entropy_vs_duration_results, flux,
                   frame_duration, pixel_area, pixel_occupancy, pixel_entropy,
                   entropy_per_cm2, entropy_per_cm2_per_s, stdout, figures,
                   inputParameters >>

\* 211: PlotEntropyUtilities.plot_entropy_vs_pixel_area(entropy_vs_pixel_area_results)
Stmt211 ==
    /\ pc = 211
    /\ figures' = Append(figures, plot_entropy_vs_pixel_area(entropy_vs_pixel_area_results))
    /\ pc' = End
    /\ UNCHANGED << ret, writes, it, flux_values, frame_duration_values,
                   pixel_area_values, entropy_results, entropy_vs_duration_results,
                   entropy_vs_pixel_area_results, flux, frame_duration, pixel_area,
                   pixel_occupancy, pixel_entropy, entropy_per_cm2,
                   entropy_per_cm2_per_s, stdout, inputParameters >>

NextScript ==
    \/ Stmt116
    \/ Stmt119
    \/ Stmt122
    \/ Stmt125
    \/ Stmt126
    \/ Stmt127
    \/ Stmt128
    \/ Stmt129
    \/ Stmt130
    \/ Stmt131
    \/ Stmt132
    \/ Stmt140
    \/ Stmt143
    \/ Stmt146
    \/ Stmt149
    \/ Stmt151
    \/ Stmt154
    \/ Stmt156
    \/ Stmt159
    \/ Stmt166
    \/ Stmt169
    \/ Stmt172
    \/ Stmt175
    \/ Stmt177
    \/ Stmt180
    \/ Stmt182
    \/ Stmt185
    \/ Stmt192
    \/ Stmt195
    \/ Stmt198
    \/ Stmt201
    \/ Stmt203
    \/ Stmt206
    \/ Stmt208
    \/ Stmt211

SpecScript == Init /\ [][NextScript]_vars

(***************************************************************************)
(* Properties.                                                             *)
(***************************************************************************)
\* The ranges the fields are meant to have.
Valid(self) == self.flux >= 0 /\ self.pixel_area > 0 /\ self.frame_duration > 0

DerivedQuantities == { "calculate_flux_area_frame_duration_product",
                       "calculate_pixel_occupancy", "calculate_pixel_entropy",
                       "calculate_entropy_per_cm2", "calculate_entropy_per_cm2_per_s" }

\* An instance with the fields inputParameters has now, constructed afresh.
Fresh == InputParameters(inputParameters.flux, inputParameters.pixel_area,
                         inputParameters.frame_duration)

IsZero(x) == x.k = "num" /\ x.v = 0

\* C1: a construction with flux < 0, pixel_area <= 0 or frame_duration <= 0
\* produces no instance: an instance no field of which has been assigned since
\* its construction has its fields in range, and no derived quantity is
\* returned for one that has not.
C1_ConstructionRejectsInvalid ==
    (inputParameters # None /\ writes = 0) => Valid(inputParameters)

\* C2: an assignment to a field of an instance whose fields are in range
\* leaves flux >= 0, pixel_area > 0 and frame_duration > 0 (an out-of-range
\* value is rejected and the fields stay as they were), so that every
\* instance has its fields in range whatever was assigned.
C2_AssignmentStep ==
    (ret'.op = "__setattr__" /\ Valid(inputParameters)) => Valid(inputParameters')

C2_AssignmentKeepsRange == [][C2_AssignmentStep]_vars

\* C6: a method returns what it returns on a freshly constructed instance
\* with the same field values, and a call of the same method right after
\* (no assignment in between) returns the same again.
C6_QueryIsFresh ==
    ret.op \in Methods => ret = Invoke(ret.op, Fresh)

C6_QueryRepeats ==
    (ret.op \in Methods /\ ret'.op = ret.op) => ret' = ret

C6_NoStaleValue == [](C6_QueryIsFresh) /\ [][C6_QueryRepeats]_vars

\* A derived quantity queried after fields were assigned, on fields in range.
C6_Witness ==
    /\ ret.op = "calculate_entropy_per_cm2_per_s"
    /\ writes = MaxWrites
    /\ Valid(inputParameters)
    /\ ret.val.v > 0

\* C7, as claimed: on fields in range, occupancy is in [0, 1): never 1.
C7_OccupancyBelowOne ==
    (ret.op = "calculate_pixel_occupancy" /\ Valid(inputParameters))
        => (0 <= ret.val.v /\ ret.val.v < One)

\* C7, amended: on fields in range, occupancy is in [0, 1]: never negative
\* and never above 1.
C7_OccupancyInUnitInterval ==
    (ret.op = "calculate_pixel_occupancy" /\ Valid(inputParameters))
        => (ret.val.k = "num" /\ 0 <= ret.val.v /\ ret.val.v <= One)

\* An occupancy of exactly 1 on fields in range.
C7_Witness ==
    /\ ret.op = "calculate_pixel_occupancy"
    /\ Valid(inputParameters)
    /\ ret.val.v = One

\* C8: with flux = 0 and the other fields in range the whole chain is zero,
\* no call raises, and the entropy is returned without log2 being evaluated.
C8_ZeroFluxChain ==
    (/\ ret.op \in DerivedQuantities
     /\ Valid(inputParameters)
     /\ inputParameters.flux = 0)
        => (ret.exc = "None" /\ IsZero(ret.val) /\ ret.log2 = {})

\* The last of the chain queried at flux = 0.
C8_Witness ==
    /\ ret.op = "calculate_entropy_per_cm2_per_s"
    /\ Valid(inputParameters)
    /\ inputParameters.flux = 0
    /\ IsZero(ret.val)

\* -p*log2(p) - (1-p)*log2(1-p) on the grid, for 0 < p < 1.
BinaryEntropy(p) ==
    Sub(Mul(Neg(p), Log2Pos(p)), Mul(Sub(One, p), Log2Pos(Sub(One, p))))

\* C9: the entropy is exactly 0 if and only if the occupancy is exactly 0 or
\* exactly 1; for an occupancy p strictly between it is
\* -p*log2(p) - (1-p)*log2(1-p), above 0 and at most 1, and 1 at p = 0.5;
\* log2 is never applied to 0.
C9_EntropyOfOccupancy ==
    ret.op = "calculate_pixel_entropy" =>
        LET p == calculate_pixel_occupancy(inputParameters).v
        IN  /\ IsZero(ret.val) <=> (p = 0 \/ p = One)
            /\ 0 \notin ret.log2
            /\ (0 < p /\ p < One) =>
                   /\ ret.val.k = "num"
                   /\ ret.val.v = BinaryEntropy(p)
                   /\ 0 < ret.val.v /\ ret.val.v <= One
            /\ 2 * p = One => ret.val.v = One

\* The entropy queried at an occupancy of exactly 0.5.
C9_Witness ==
    /\ ret.op = "calculate_pixel_entropy"
    /\ 2 * calculate_pixel_occupancy(inputParameters).v = One
    /\ ret.val.v = One

\* C10: a step that is a method call leaves the three fields as they were, so
\* only construction and assignment change them.
C10_QueryKeepsFields ==
    ret'.op \in Methods => inputParameters' = inputParameters

C10_MethodsDoNotWrite == [][C10_QueryKeepsFields]_vars

\* get_summary called on an instance with an assigned field.
C10_Witness ==
    /\ ret.op = "get_summary"
    /\ writes > 0
    /\ ret.text = get_summary(inputParameters)

\* entropyRateDensity evaluated directly on an instance with the given fields.
Direct(f, a, d) == calculate_entropy_per_cm2_per_s(InputParameters(f, a, d)).val

\* pairs is the sweep's result for the first Len(pairs) of values.
SweptPrefix(pairs, values, direct(_)) ==
    /\ Len(pairs) <= Len(values)
    /\ \A n \in 1..Len(pairs) : pairs[n] = << values[n], direct(values[n]) >>

DirectFlux(v) == Direct(v, BasePixelArea, BaseFrameDuration)
DirectFrameDuration(v) == Direct(BaseFlux, BasePixelArea, v)
DirectPixelArea(v) == Direct(BaseFlux, v, BaseFrameDuration)

\* C3: a sweep yields one pair per value, in the order of the values, the
\* n-th being the n-th value with entropyRateDensity evaluated directly at it
\* (the other two fields at their base values): while the loop runs the
\* results are that for the values done, and the plot gets all of them.
C3_SweepPairs ==
    /\ SweptPrefix(entropy_results, FluxValuesLiteral, DirectFlux)
    /\ SweptPrefix(entropy_vs_duration_results, FrameDurationValuesLiteral,
                   DirectFrameDuration)
    /\ SweptPrefix(entropy_vs_pixel_area_results, PixelAreaValuesLiteral, DirectPixelArea)
    /\ pc \in 149..156 => Len(entropy_results) \in {it - 1, it}
    /\ pc \in 175..182 => Len(entropy_vs_duration_results) \in {it - 1, it}
    /\ pc \in 201..208 => Len(entropy_vs_pixel_area_results) \in {it - 1, it}
    /\ pc >= 159 => Len(entropy_results) = Len(FluxValuesLiteral)
    /\ pc >= 185 =>
           Len(entropy_vs_duration_results) = Len(FrameDurationValuesLiteral)
    /\ pc = End =>
           /\ Len(entropy_vs_pixel_area_results) = Len(PixelAreaValuesLiteral)
           /\ Len(figures) = 3
           /\ figures[1].x = FluxValuesLiteral
           /\ figures[2].x = FrameDurationValuesLiteral
           /\ figures[3].x = PixelAreaValuesLiteral

\* The script at its end, the three sweeps plotted.
C3_Witness ==
    /\ pc = End
    /\ Len(entropy_results) = 7
    /\ Len(entropy_vs_duration_results) = 5
    /\ Len(entropy_vs_pixel_area_results) = 7

C5_SweepsStartFromBase ==
    /\ flux_values \in { << >>, FluxValuesLiteral }
    /\ frame_duration_values \in { << >>, FrameDurationValuesLiteral }
    /\ pixel_area_values \in { << >>, PixelAreaValuesLiteral }
    /\ pc > 143 => flux_values = FluxValuesLiteral
    /\ pc > 169 => frame_duration_values = FrameDurationValuesLiteral
    /\ pc > 195 => pixel_area_values = PixelAreaValuesLiteral
    /\ (pc \in {149, 175, 201} /\ it = 0) =>
           inputParameters = InputParameters(BaseFlux, BasePixelArea, BaseFrameDuration)

\* The pixel area sweep about to start, the frame duration sweep done.
C5_Witness ==
    /\ pc = 201
    /\ it = 0
    /\ Len(entropy_vs_duration_results) = 5
    /\ entropy_vs_duration_results[5][1] = 2000

====
